---------------------------- MODULE Spec2Model ----------------------------
(***************************************************************************)
(* Model of the Memberful ingestion client of junior.guru                  *)
(* (juniorguru/lib/memberful.py): the cursor-paginated query engine        *)
(* (MemberfulAPI._query), the deduplicating node stream                    *)
(* (MemberfulAPI.get_nodes), the response cache layer                      *)
(* (MemberfulAPI._execute_query, MemberfulCSV.download_csv) and the CSV    *)
(* export client (MemberfulCSV); and of the subscription activity ledger   *)
(* (juniorguru/models/subscription.py): SubscriptionActivity.add and       *)
(* SubscriptionActivity.mark_trials and the statistics read from the       *)
(* table.                                                                  *)
(*                                                                         *)
(* Encodings.  Python's None is the string None (no cursor and no id the   *)
(* server sends is that string).  A dict is the sequence of its            *)
(* <<key, value>> pairs in insertion order, which is the order json.dumps  *)
(* writes them in.  A text (a query, a JSON document, a CSV body) is the   *)
(* sequence of its tokens.  An optional value that is no string (an        *)
(* integer, a dict) is <<>> for None or <<v>>.                             *)
(***************************************************************************)
EXTENDS Integers, Sequences, FiniteSets, TLC

VARIABLES
    cache,      \* the diskcache.Cache the clients were given, or no cache
    api,        \* the MemberfulAPI instance: its clear_cache flag
    csv,        \* the MemberfulCSV instance and the frame of download_csv
    gn,         \* the frame of the get_nodes generator
    qg,         \* the frame of the _query generator
    out,        \* the nodes get_nodes has yielded, in order
    served,     \* the page results _query has yielded, in order
    net,        \* the requests sent over the network, in order
    ops,        \* the operations performed on the cache, in order
    http,       \* what the last fetch call did on the Memberful website, in order
    calls,      \* the fetch calls made on the clients, in order
    polled,     \* the answers to the polls of the last download_csv call, in order
    ledger,     \* the rows of the subscriptionactivity table
    replica,    \* the same table in a second database, fed the same records
    added,      \* the records passed to SubscriptionActivity.add, in order
    readded,    \* the records added to the replica, in order
    mt,         \* the position of SubscriptionActivity.mark_trials
    stat        \* the last statistic asked of the ledger and what it gave

vars == <<cache, api, csv, gn, qg, out, served, net, ops, http, calls, polled,
          ledger, replica, added, readded, mt, stat>>

memberfulVars == <<cache, api, csv, gn, qg, out, served, net, ops, http, calls, polled>>
ledgerVars == <<ledger, replica, added, readded, mt, stat>>

None == "None"

(***************************************************************************)
(* Bounds of the model.                                                    *)
(***************************************************************************)
\* requests one _query run may issue before the model stops following it
MaxPages == 2
\* fetch calls issued on the clients in one run of the cache specification
MaxCalls == 2

(***************************************************************************)
(* Texts and hashing.                                                      *)
(***************************************************************************)
\* json.dumps of a dict of strings, insertion order kept
json_dumps(d) ==
    LET RECURSIVE items(_)
        items(i) == IF i > Len(d) THEN <<>>
                    ELSE <<d[i][1], d[i][2]>> \o items(i + 1)
    IN <<"{">> \o items(1) \o <<"}">>

\* hashlib.sha256(json.dumps(data)): injective on the serialised text
hash_data(text) == <<"sha256">> \o text

\* Python's truth value of a string or None
Truthy(s) == s \notin {None, ""}

(***************************************************************************)
(* COLLECTION_NAME_RE = (?P<collection_name>\w+)\(after:\s*\$cursor        *)
(* over a tokenised query: a word, "(", "after:", any whitespace tokens,   *)
(* "$cursor".                                                              *)
(***************************************************************************)
Words == {"query", "members", "subscriptions", "first"}

\* the pattern with \s* before the parenthesis as well
MatchesAt_SpaceBeforeParen(query, i) ==
    \E p \in (i + 1)..Len(query) :
        /\ p + 2 <= Len(query)
        /\ query[i] \in Words
        /\ \A k \in (i + 1)..(p - 1) : query[k] = " "
        /\ query[p] = "("
        /\ query[p + 1] = "after:"
        /\ \E j \in (p + 2)..Len(query) :
              /\ query[j] = "$cursor"
              /\ \A k \in (p + 2)..(j - 1) : query[k] = " "

MatchesAt(query, i) ==
    /\ i + 3 <= Len(query)
    /\ query[i] \in Words
    /\ query[i + 1] = "("
    /\ query[i + 2] = "after:"
    /\ \E j \in (i + 3)..Len(query) :
          /\ query[j] = "$cursor"
          /\ \A k \in (i + 3)..(j - 1) : query[k] = " "

\* re.search: the leftmost match, or None
COLLECTION_NAME_RE_search(query) ==
    LET hits == {i \in 1..Len(query) : MatchesAt(query, i)}
    IN IF hits = {} THEN None
       ELSE query[CHOOSE i \in hits : \A k \in hits : i <= k]

(***************************************************************************)
(* The cache: diskcache.Cache, or no cache.  Its entries are kept per tag  *)
(* (every entry a client writes carries its class's tag); "other" holds    *)
(* entries written by other users of the same cache.                       *)
(***************************************************************************)
ApiTag == "memberfulapi"
CsvTag == "memberfulcsv"
OtherTag == "other"
Tags == {ApiTag, CsvTag, OtherTag}

NoCache == [present |-> FALSE, entries |-> [t \in Tags |-> <<>>]]
EmptyCache == [present |-> TRUE, entries |-> [t \in Tags |-> <<>>]]

\* len(cache): diskcache counts every entry, whatever its tag
CacheLen(c) ==
    Cardinality(DOMAIN c.entries[ApiTag]) + Cardinality(DOMAIN c.entries[CsvTag])
        + Cardinality(DOMAIN c.entries[OtherTag])

\* `if self.cache:` -- None is false, and a Cache, which defines __len__
\* and no __bool__, is false while it holds no entry
CacheTruthy(c) == c.present /\ CacheLen(c) > 0

\* the tag is not looked at
CacheEvict_EveryTag(c, tag) == [c EXCEPT !.entries = [t \in Tags |-> <<>>]]

\* cache.evict(tag)
CacheEvict(c, tag) == [c EXCEPT !.entries[tag] = <<>>]

\* every lookup raises KeyError
CacheHas_Never(c, key) == FALSE

\* key in cache (the lookup self.cache[key] raises KeyError otherwise)
CacheHas(c, key) == \E t \in Tags : key \in DOMAIN c.entries[t]

\* self.cache[key]
CacheGet(c, key) ==
    c.entries[CHOOSE t \in Tags : key \in DOMAIN c.entries[t]][key]

\* cache.set(key, value, tag=tag)
CacheSet(c, tag, key, value) ==
    [c EXCEPT !.entries[tag] =
        [k \in (DOMAIN @) \cup {key} |-> IF k = key THEN value ELSE @[k]]]

(***************************************************************************)
(* Nodes and page results.  A node is its id (None when it has none) and   *)
(* the rest of its content; a page result is result[collection_name].      *)
(***************************************************************************)
Node(id, body) == [id |-> id, body |-> body]

\* json.dumps(node)
NodeText(node) ==
    json_dumps(IF node.id = None THEN << <<"body", node.body>> >>
               ELSE << <<"id", node.id>>, <<"body", node.body>> >>)

\* node.get("id") or hash_data(node): an id is itself, a hash is a text
NodeId(node) == IF Truthy(node.id) THEN <<node.id>> ELSE hash_data(NodeText(node))

PageInfo(hasNextPage, endCursor) ==
    [hasNextPage |-> hasNextPage, endCursor |-> endCursor]

Page(totalCount, pageInfo, edges) ==
    [totalCount |-> totalCount, pageInfo |-> pageInfo, edges |-> edges]

\* what the network gives for one request: a page result, or an error
Response(ok, page) == [ok |-> ok, page |-> page]

(***************************************************************************)
(* MemberfulAPI._execute_query as a function of the cache, the client's    *)
(* clear_cache flag, the request and what the network would answer.        *)
(* Gives the cache and the flag afterwards, whether it raised, the result, *)
(* the requests sent and the cache operations performed.                   *)
(***************************************************************************)
\* hash_data(dict(query=query, variable_values=variable_values))
QueryCacheKey(query, variable_values) ==
    hash_data(<<"{", "query">> \o query \o <<"variable_values">>
                  \o json_dumps(variable_values) \o <<"}">>)

Request(query, variable_values) ==
    [query |-> query, variable_values |-> variable_values]

CacheOp(op, tag, key) == [op |-> op, tag |-> tag, key |-> key]

\* one fetch call on a client: what was asked, how the call ended and
\* whether it went to the network (1) or was answered from the cache (0)
Call(client, query, variable_values, outcome, sent) ==
    [client |-> client, query |-> query, variable_values |-> variable_values,
     outcome |-> outcome, sent |-> sent]

\* the answer is stored before it is known to be good
_execute_query_StoresFailure(c, clear_cache, query, variable_values, resp) ==
    [cache |-> CacheSet(c, ApiTag, QueryCacheKey(query, variable_values), resp.page),
     clear_cache |-> clear_cache, raised |-> ~resp.ok, result |-> resp.page,
     net |-> <<Request(query, variable_values)>>, ops |-> <<>>]

_execute_query(c, clear_cache, query, variable_values, resp) ==
    LET cache_tag == ApiTag
        use == CacheTruthy(c)
        clearing == use /\ clear_cache
        c1 == IF clearing THEN CacheEvict(c, cache_tag) ELSE c
        flag == IF clearing THEN FALSE ELSE clear_cache
        cache_key == QueryCacheKey(query, variable_values)
        hit == use /\ CacheHas(c1, cache_key)
        lookedup == (IF clearing THEN <<CacheOp("evict", cache_tag, <<>>)>> ELSE <<>>)
                    \o (IF use THEN <<CacheOp("get", cache_tag, cache_key)>> ELSE <<>>)
        save == CacheTruthy(c1)
    IN IF hit
       THEN [cache |-> c1, clear_cache |-> flag, raised |-> FALSE,
             result |-> CacheGet(c1, cache_key), net |-> <<>>, ops |-> lookedup]
       ELSE IF ~resp.ok
       THEN [cache |-> c1, clear_cache |-> flag, raised |-> TRUE,
             result |-> resp.page, net |-> <<Request(query, variable_values)>>,
             ops |-> lookedup]
       ELSE [cache |-> IF save THEN CacheSet(c1, cache_tag, cache_key, resp.page)
                       ELSE c1,
             clear_cache |-> flag, raised |-> FALSE, result |-> resp.page,
             net |-> <<Request(query, variable_values)>>,
             ops |-> lookedup \o (IF save
                                  THEN <<CacheOp("set", cache_tag, cache_key)>>
                                  ELSE <<>>)]

(***************************************************************************)
(* MemberfulAPI.get_nodes and MemberfulAPI._query: two generators.  The    *)
(* frame gn holds the locals of get_nodes, qg those of _query.  A step of  *)
(* the consumer's drain resumes get_nodes, which runs to its next yield;   *)
(* the actions below are the pieces of that run.                           *)
(***************************************************************************)
NoPage == Page(0, PageInfo(FALSE, None), <<>>)

NewGetNodes(query, variable_values) ==
    [pc |-> "created", query |-> query, variable_values |-> variable_values,
     collection_name |-> None, declared_count |-> <<>>, nodes_count |-> 0,
     duplicates_count |-> 0, seen_node_ids |-> {}, result |-> NoPage, i |-> 0,
     err |-> ""]

NewQuery == [pc |-> "created", cursor |-> "", n |-> 0]

Raise(frame, err) == [frame EXCEPT !.pc = "raised", !.err = err]

\* get_nodes, lines 73-80: the collection name, then the counters
StartGetNodes ==
    /\ gn.pc = "created"
    /\ LET collection_name == COLLECTION_NAME_RE_search(gn.query)
       IN gn' = IF collection_name = None
                THEN Raise(gn, "ValueError")
                ELSE [gn EXCEPT !.pc = "query",
                                !.collection_name = collection_name]
    /\ UNCHANGED <<cache, api, csv, qg, out, served, net, ops, http, calls>>
    /\ UNCHANGED <<polled, ledger, replica, added, readded, mt, stat>>

\* `variable_values or {}`
OrEmptyDict(variable_values) ==
    IF variable_values = <<>> THEN <<>> ELSE variable_values[1]

DictKeys(d) == {d[k][1] : k \in 1..Len(d)}

\* the cursor not advanced
CursorAfter_NotAdvanced(page_info) ==
    IF page_info.hasNextPage THEN "" ELSE None

\* _query, lines 121-126: what follows the yield of `result`
CursorAfter(page_info) ==
    IF page_info.hasNextPage THEN page_info.endCursor ELSE None

\* `while cursor is not None`
QueryContinues(cursor) == cursor # None

\* get_nodes asks _query for its next result (the `for` of line 81): _query
\* finishes the iteration it was suspended in, tests its loop condition and
\* either returns or executes the next request and yields its result.
QueryNext(responses) ==
    /\ gn.pc = "query"
    /\ LET started == qg.pc = "yielded"
           cursor == IF started THEN CursorAfter(gn.result.pageInfo) ELSE ""
           n == IF started THEN qg.n + 1 ELSE 0
           variable_values == OrEmptyDict(gn.variable_values)
       IN IF ~QueryContinues(cursor)
          THEN /\ qg' = [pc |-> "returned", cursor |-> cursor, n |-> n]
               /\ gn' = [gn EXCEPT !.pc = "final"]
               /\ UNCHANGED <<cache, api, served, net, ops, calls>>
          ELSE IF "cursor" \in DictKeys(variable_values)
          THEN \* dict(cursor=cursor, **variable_values) raises TypeError
               /\ qg' = [pc |-> "raised", cursor |-> cursor, n |-> n]
               /\ gn' = Raise(gn, "TypeError")
               /\ UNCHANGED <<cache, api, served, net, ops, calls>>
          ELSE /\ n < MaxPages
               /\ \E resp \in responses :
                    LET r == _execute_query(cache, api.clear_cache, gn.query,
                                 << <<"cursor", cursor>> >> \o variable_values, resp)
                    IN /\ cache' = r.cache
                       /\ api' = [api EXCEPT !.clear_cache = r.clear_cache]
                       /\ net' = net \o r.net
                       /\ ops' = ops \o r.ops
                       /\ calls' = Append(calls,
                              Call("api", gn.query,
                                   << <<"cursor", cursor>> >> \o variable_values,
                                   IF r.raised THEN "raised" ELSE "returned",
                                   Len(r.net)))
                       /\ IF r.raised
                          THEN /\ qg' = [pc |-> "raised", cursor |-> cursor, n |-> n]
                               /\ gn' = Raise(gn, "TransportError")
                               /\ served' = served
                          ELSE /\ qg' = [pc |-> "yielded", cursor |-> cursor, n |-> n]
                               /\ gn' = [gn EXCEPT !.pc = "page", !.result = r.result]
                               /\ served' = Append(served, r.result)
    /\ UNCHANGED <<csv, out, http>>
    /\ UNCHANGED <<polled, ledger, replica, added, readded, mt, stat>>

\* the assertion of lines 91-93 left out
SameTotalCount_Unchecked(declared_count, count) == TRUE

\* the assertion of lines 91-93
SameTotalCount(declared_count, count) == declared_count = count

\* get_nodes, lines 87-93: the page's totalCount against the first one
CheckTotalCount ==
    /\ gn.pc = "page"
    /\ LET count == gn.result.totalCount
           declared_count == IF gn.declared_count = <<>> THEN count
                             ELSE gn.declared_count[1]
       IN gn' = IF ~SameTotalCount(declared_count, count)
                THEN Raise([gn EXCEPT !.declared_count = <<declared_count>>],
                           "AssertionError: total count")
                ELSE [gn EXCEPT !.declared_count = <<declared_count>>,
                                !.i = 1,
                                !.pc = IF gn.result.edges = <<>> THEN "query"
                                       ELSE "edges"]
    /\ UNCHANGED <<cache, api, csv, qg, out, served, net, ops, http, calls>>
    /\ UNCHANGED <<polled, ledger, replica, added, readded, mt, stat>>

\* no node taken for a duplicate
IsDuplicate_Never(node_id, seen_node_ids) == FALSE

\* `if node_id in seen_node_ids`
IsDuplicate(node_id, seen_node_ids) == node_id \in seen_node_ids

\* get_nodes, lines 96-105: one edge of the page, yielded or dropped
NextEdge ==
    /\ gn.pc = "edges"
    /\ LET node == gn.result.edges[gn.i]
           node_id == NodeId(node)
           duplicate == IsDuplicate(node_id, gn.seen_node_ids)
       IN /\ out' = IF duplicate THEN out ELSE Append(out, node)
          /\ gn' = [gn EXCEPT
                      !.duplicates_count = IF duplicate THEN @ + 1 ELSE @,
                      !.seen_node_ids = IF duplicate THEN @ ELSE @ \cup {node_id},
                      !.nodes_count = @ + 1,
                      !.i = @ + 1,
                      !.pc = IF gn.i = Len(gn.result.edges) THEN "query" ELSE "edges"]
    /\ UNCHANGED <<cache, api, csv, qg, served, net, ops, http, calls>>
    /\ UNCHANGED <<polled, ledger, replica, added, readded, mt, stat>>

\* the final assertions without the one on duplicates
FinalAsserts_NoDuplicatesCheck ==
    /\ gn.pc = "final"
    /\ gn' = IF gn.declared_count # <<gn.nodes_count>>
             THEN Raise(gn, "AssertionError: nodes count")
             ELSE [gn EXCEPT !.pc = "returned"]
    /\ UNCHANGED <<cache, api, csv, qg, out, served, net, ops, http, calls>>
    /\ UNCHANGED <<polled, ledger, replica, added, readded, mt, stat>>

\* the final assertions without the one on the number of nodes
FinalAsserts_NoCountCheck ==
    /\ gn.pc = "final"
    /\ gn' = IF gn.duplicates_count # 0
             THEN Raise(gn, "AssertionError: duplicates")
             ELSE [gn EXCEPT !.pc = "returned"]
    /\ UNCHANGED <<cache, api, csv, qg, out, served, net, ops, http, calls>>
    /\ UNCHANGED <<polled, ledger, replica, added, readded, mt, stat>>

\* the final assertions in the other order
FinalAsserts_CountFirst ==
    /\ gn.pc = "final"
    /\ gn' = IF gn.declared_count # <<gn.nodes_count>>
             THEN Raise(gn, "AssertionError: nodes count")
             ELSE IF gn.duplicates_count # 0
             THEN Raise(gn, "AssertionError: duplicates")
             ELSE [gn EXCEPT !.pc = "returned"]
    /\ UNCHANGED <<cache, api, csv, qg, out, served, net, ops, http, calls>>
    /\ UNCHANGED <<polled, ledger, replica, added, readded, mt, stat>>

\* get_nodes, lines 106-111: the assertions after the last page
FinalAsserts ==
    /\ gn.pc = "final"
    /\ gn' = IF gn.duplicates_count # 0
             THEN Raise(gn, "AssertionError: duplicates")
             ELSE IF gn.declared_count # <<gn.nodes_count>>
             THEN Raise(gn, "AssertionError: nodes count")
             ELSE [gn EXCEPT !.pc = "returned"]
    /\ UNCHANGED <<cache, api, csv, qg, out, served, net, ops, http, calls>>
    /\ UNCHANGED <<polled, ledger, replica, added, readded, mt, stat>>

(***************************************************************************)
(* MemberfulCSV: the session properties, _auth, download_csv, _parse_csv.  *)
(* A CSV text is the sequence of its cells and of the separators "," and   *)
(* "\n"; a row is the dict of its cells by column name.                    *)
(***************************************************************************)
DOWNLOAD_POLLING_WAIT_SEC == 5
\* `for attempt_no in range(1, 10)`
FirstAttemptNo == 1
StopAttemptNo == 10

\* the wait is not passed on
HttpDo_NoWait(do, what, sec) == [do |-> do, what |-> what, sec |-> 0]

HttpDo(do, what, sec) == [do |-> do, what |-> what, sec |-> sec]

\* urlencode(params) after the address of the export
ExportUrl(params) ==
    LET RECURSIVE encoded(_)
        encoded(i) ==
            IF i > Len(params) THEN <<>>
            ELSE (IF i > 1 THEN <<"&">> ELSE <<>>)
                    \o <<params[i][1], "=", params[i][2]>> \o encoded(i + 1)
    IN <<"https://juniorguru.memberful.com/admin/csv_exports?">> \o encoded(1)

\* hash_data(dict(url=url))
UrlCacheKey(url) == hash_data(<<"{", "url">> \o url \o <<"}">>)

\* str.splitlines
RECURSIVE splitlines(_)
splitlines(text) ==
    IF text = <<>> THEN <<>>
    ELSE LET ends == {i \in 1..Len(text) : text[i] = "\n"}
             end == IF ends = {} THEN Len(text) + 1
                    ELSE CHOOSE i \in ends : \A k \in ends : i <= k
         IN <<SubSeq(text, 1, end - 1)>>
                \o splitlines(SubSeq(text, end + 1, Len(text)))

\* csv.reader on one line: its cells
RECURSIVE Cells(_)
Cells(line) ==
    IF line = <<>> THEN <<>>
    ELSE IF Head(line) = "," THEN Cells(Tail(line))
    ELSE <<Head(line)>> \o Cells(Tail(line))

\* csv.DictReader: the first line names the columns, blank lines are
\* skipped, a short row is filled with None (no row of the inputs is longer
\* than the header)
_parse_csv(content) ==
    LET lines == splitlines(content)
        fieldnames == IF lines = <<>> THEN <<>> ELSE Cells(lines[1])
        Row(cells) == [k \in 1..Len(fieldnames) |->
                          <<fieldnames[k], IF k <= Len(cells) THEN cells[k] ELSE None>>]
        RECURSIVE rows(_)
        rows(i) == IF i > Len(lines) THEN <<>>
                   ELSE IF Cells(lines[i]) = <<>> THEN rows(i + 1)
                   ELSE <<Row(Cells(lines[i]))>> \o rows(i + 1)
    IN rows(2)

\* response.content.decode("utf-8") fails on a byte that is no UTF-8
Decodable(body) == \A i \in 1..Len(body) : body[i] # "0xFF"

\* MemberfulCSV(cache=..., clear_cache=...); `given` keeps the argument
NewCsv(clear_cache) ==
    [clear_cache |-> clear_cache, given |-> clear_cache,
     _session |-> None, _csrf_token |-> None,
     pc |-> "idle", params |-> <<>>, attempt_no |-> 0, err |-> "", rows |-> <<>>]

\* raise_for_status is left out: a failed request gives no session and no
\* token, and no error
_auth_NeverRaises(outcome) ==
    [raised |-> FALSE,
     _session |-> IF outcome \in {"get_error", "post_error"} THEN None ELSE "session",
     _csrf_token |-> IF outcome = "ok" THEN "token"
                     ELSE IF outcome = "empty_token" THEN "" ELSE None,
     http |-> IF outcome = "get_error" THEN <<HttpDo("GET", "sign_in", 0)>>
              ELSE <<HttpDo("GET", "sign_in", 0), HttpDo("POST", "sign_in", 0)>>]

\* _auth, lines 192-208: the two requests of the login and what they give
_auth(outcome) ==
    LET get == HttpDo("GET", "sign_in", 0)
        post == HttpDo("POST", "sign_in", 0)
    IN CASE outcome = "get_error" ->
              [raised |-> TRUE, _session |-> None, _csrf_token |-> None,
               http |-> <<get>>]
         [] outcome = "post_error" ->
              [raised |-> TRUE, _session |-> None, _csrf_token |-> None,
               http |-> <<get, post>>]
         [] outcome = "empty_token" ->
              [raised |-> FALSE, _session |-> "session", _csrf_token |-> "",
               http |-> <<get, post>>]
         [] OTHER ->
              [raised |-> FALSE, _session |-> "session", _csrf_token |-> "token",
               http |-> <<get, post>>]

AuthOutcomes == {"ok", "empty_token", "get_error", "post_error"}

\* the call that is running ends
EndCall(log, outcome) == [log EXCEPT ![Len(log)].outcome = outcome]

\* the error drops the session
CsvRaise_LogsOut(c, err) ==
    [c EXCEPT !.pc = "idle", !.attempt_no = 0, !.err = err,
              !._session = None, !._csrf_token = None]

CsvRaise(c, err) == [c EXCEPT !.pc = "idle", !.attempt_no = 0, !.err = err]

\* download_csv, lines 211-228: the cache layer before the export
DownloadCsv(params) ==
    /\ csv.pc = "idle"
    /\ Len(calls) < MaxCalls
    /\ LET cache_tag == CsvTag
           use == CacheTruthy(cache)
           clearing == use /\ csv.clear_cache
           c1 == IF clearing THEN CacheEvict(cache, cache_tag) ELSE cache
           cache_key == UrlCacheKey(ExportUrl(params))
           hit == use /\ CacheHas(c1, cache_key)
           started == [csv EXCEPT !.clear_cache = IF clearing THEN FALSE ELSE @,
                                  !.params = params, !.attempt_no = 0,
                                  !.err = "", !.rows = <<>>]
       IN /\ cache' = c1
          /\ ops' = ops \o (IF clearing THEN <<CacheOp("evict", cache_tag, <<>>)>>
                            ELSE <<>>)
                        \o (IF use THEN <<CacheOp("get", cache_tag, cache_key)>>
                            ELSE <<>>)
          /\ http' = <<>>
          /\ IF hit
             THEN /\ csv' = [started EXCEPT
                                !.rows = _parse_csv(CacheGet(c1, cache_key))]
                  /\ calls' = Append(calls, Call("csv", <<>>, params, "returned", 0))
             ELSE /\ csv' = [started EXCEPT !.pc = "session"]
                  /\ calls' = Append(calls, Call("csv", <<>>, params, "running", 1))
    /\ UNCHANGED <<api, gn, qg, out, served, net>>
    /\ polled' = <<>>
    /\ UNCHANGED ledgerVars

\* the property that is read logs in when it holds nothing
Authenticate(held, next) ==
    IF Truthy(held)
    THEN /\ csv' = [csv EXCEPT !.pc = next]
         /\ UNCHANGED <<http, calls>>
    ELSE \E outcome \in AuthOutcomes :
            LET a == _auth(outcome)
            IN /\ http' = http \o a.http
               /\ IF a.raised
                  THEN /\ csv' = CsvRaise(csv, "HTTPError")
                       /\ calls' = EndCall(calls, "raised")
                  ELSE /\ csv' = [csv EXCEPT !._session = a._session,
                                             !._csrf_token = a._csrf_token,
                                             !.pc = next]
                       /\ calls' = calls

\* download_csv, line 231: `self.session`
CsvSession ==
    /\ csv.pc = "session"
    /\ Authenticate(csv._session, "csrf_token")
    /\ UNCHANGED <<cache, api, gn, qg, out, served, net, ops>>
    /\ UNCHANGED <<polled, ledger, replica, added, readded, mt, stat>>

\* download_csv, line 232: `self.csrf_token`
CsvToken ==
    /\ csv.pc = "csrf_token"
    /\ Authenticate(csv._csrf_token, "post")
    /\ UNCHANGED <<cache, api, gn, qg, out, served, net, ops>>
    /\ UNCHANGED <<polled, ledger, replica, added, readded, mt, stat>>

\* download_csv, lines 231-235: the export request and its Location
CsvPost ==
    /\ csv.pc = "post"
    /\ http' = Append(http, HttpDo("POST", "csv_exports", 0))
    /\ \E status \in {"redirect", "http_error"} :
          IF status = "redirect"
          THEN /\ csv' = [csv EXCEPT !.pc = "poll", !.attempt_no = FirstAttemptNo]
               /\ calls' = calls
          ELSE /\ csv' = CsvRaise(csv, "HTTPError")
               /\ calls' = EndCall(calls, "raised")
    /\ UNCHANGED <<cache, api, gn, qg, out, served, net, ops>>
    /\ UNCHANGED <<polled, ledger, replica, added, readded, mt, stat>>

\* the stop value taken for the last attempt
LastAttemptNo_Inclusive == StopAttemptNo

\* the last value of range(1, 10)
LastAttemptNo == StopAttemptNo - 1

\* download_csv, lines 238-260: one turn of the polling loop and, when the
\* loop ends, the rest of the call
CsvPoll(polls) ==
    /\ csv.pc = "poll"
    /\ http' = http \o <<HttpDo("sleep", "", DOWNLOAD_POLLING_WAIT_SEC),
                         HttpDo("GET", "download", 0)>>
    /\ \E poll \in polls :
          /\ polled' = Append(polled, poll)
          /\ CASE poll.status = "http_error" /\ csv.attempt_no < LastAttemptNo ->
                     /\ csv' = [csv EXCEPT !.attempt_no = @ + 1]
                     /\ UNCHANGED <<cache, ops, calls>>
               [] poll.status = "http_error" /\ csv.attempt_no >= LastAttemptNo ->
                     /\ csv' = CsvRaise(csv, "DownloadError")
                     /\ calls' = EndCall(calls, "raised")
                     /\ UNCHANGED <<cache, ops>>
               [] poll.status = "connection_error" ->
                     /\ csv' = CsvRaise(csv, "ConnectionError")
                     /\ calls' = EndCall(calls, "raised")
                     /\ UNCHANGED <<cache, ops>>
               [] poll.status = "ok" /\ ~Decodable(poll.body) ->
                     /\ csv' = CsvRaise(csv, "UnicodeDecodeError")
                     /\ calls' = EndCall(calls, "raised")
                     /\ UNCHANGED <<cache, ops>>
               [] OTHER ->
                     LET cache_key == UrlCacheKey(ExportUrl(csv.params))
                         save == CacheTruthy(cache)
                     IN /\ cache' = IF save
                                    THEN CacheSet(cache, CsvTag, cache_key, poll.body)
                                    ELSE cache
                        /\ ops' = ops \o (IF save
                                          THEN <<CacheOp("set", CsvTag, cache_key)>>
                                          ELSE <<>>)
                        /\ csv' = [csv EXCEPT !.pc = "idle", !.attempt_no = 0,
                                              !.rows = _parse_csv(poll.body)]
                        /\ calls' = EndCall(calls, "returned")
    /\ UNCHANGED <<api, gn, qg, out, served, net>>
    /\ UNCHANGED ledgerVars

\* a direct call of MemberfulAPI._execute_query
ExecuteQuery(query, variable_values, responses) ==
    /\ csv.pc = "idle"
    /\ Len(calls) < MaxCalls
    /\ \E resp \in responses :
          LET r == _execute_query(cache, api.clear_cache, query, variable_values, resp)
          IN /\ cache' = r.cache
             /\ api' = [api EXCEPT !.clear_cache = r.clear_cache]
             /\ net' = net \o r.net
             /\ ops' = ops \o r.ops
             /\ calls' = Append(calls,
                    Call("api", query, variable_values,
                         IF r.raised THEN "raised" ELSE "returned", Len(r.net)))
    /\ http' = <<>>
    /\ UNCHANGED <<csv, gn, qg, out, served>>
    /\ polled' = <<>>
    /\ UNCHANGED ledgerVars

(***************************************************************************)
(* Inputs: query texts, variable bindings, nodes, pages, caches.           *)
(***************************************************************************)
QueryMembers == <<"query", " ", "members", "(", "after:", " ", "$cursor", ")">>
QuerySubscriptions == <<"subscriptions", "(", "after:", "$cursor", ")">>
QueryTwoCollections ==
    <<"members", "(", "after:", " ", " ", "$cursor", ")",
      "subscriptions", "(", "after:", "$cursor", ")">>
\* no `<name>(after: $cursor`: another argument first, a space before the
\* parenthesis, no name, another variable, no collection at all
QueryFirstThenAfter ==
    <<"members", "(", "first", ":", " ", "after:", " ", "$cursor", ")">>
QuerySpaceBeforeParen == <<"members", " ", "(", "after:", " ", "$cursor", ")">>
QueryNoName == <<"(", "after:", " ", "$cursor", ")">>
QueryOtherVariable == <<"members", "(", "after:", " ", "$after", ")">>
QueryNoCollection == <<"query", " ", "members">>

ParseableQueries == {QueryMembers, QuerySubscriptions, QueryTwoCollections}
UnparseableQueries ==
    {QueryFirstThenAfter, QuerySpaceBeforeParen, QueryNoName, QueryOtherVariable,
     QueryNoCollection}

NodeA == Node("a", "x")
NodeB == Node("b", "x")
NodeC == Node("c", "x")
\* the id of NodeA with another content
NodeA2 == Node("a", "y")
\* nodes without an id, and one whose id is the empty string
NodeN1 == Node(None, "x")
NodeN2 == Node(None, "y")
NodeE == Node("", "x")

EdgeLists ==
    {<<>>, <<NodeA, NodeB>>, <<NodeA, NodeB, NodeA>>, <<NodeC>>,
     <<NodeN1, NodeN2, NodeN1>>, <<NodeA2, NodeE, NodeN1>>}

TotalCounts == {2, 3}

Failure == Response(FALSE, NoPage)

\* the answers of the node stream's server
NodeResponses ==
    {Response(TRUE, Page(t, pi, e)) :
        t \in TotalCounts,
        pi \in {PageInfo(FALSE, None), PageInfo(TRUE, "c1"), PageInfo(TRUE, None)},
        e \in EdgeLists} \cup {Failure}

\* the answers of the pagination's server: every pageInfo, one node a page
PageInfos == {PageInfo(h, c) : h \in BOOLEAN, c \in {None, "", "c1", "c2"}}

InfoResponses ==
    {Response(TRUE, Page(t, pi, <<Node(c, "x")>>)) :
        t \in {1, 2}, pi \in PageInfos, c \in {"a", "b"}} \cup {Failure}

\* a cache that other code has written to, and one holding an answer to the
\* first request of QueryMembers without variables
OtherKey == hash_data(<<"{", "url", "other", "}">>)
OtherCache == CacheSet(EmptyCache, OtherTag, OtherKey, NoPage)
SeededCache ==
    CacheSet(OtherCache, ApiTag,
             QueryCacheKey(QueryMembers, << <<"cursor", "">> >>),
             Page(2, PageInfo(TRUE, "c1"), <<NodeA, NodeB>>))

Caches == {NoCache, EmptyCache, OtherCache, SeededCache}

\* no subscription activity is stored or added while the clients are followed
NoLedger ==
    /\ ledger = {}
    /\ replica = {}
    /\ added = <<>>
    /\ readded = <<>>
    /\ mt = "idle"
    /\ stat = <<>>

\* MemberfulAPI(cache=..., clear_cache=...); `given` keeps the argument
NewApi(clear_cache) == [clear_cache |-> clear_cache, given |-> clear_cache]

InitGetNodes(queries, bindings, caches, flags) ==
    /\ cache \in caches
    /\ api \in {NewApi(f) : f \in flags}
    /\ csv = NewCsv(FALSE)
    /\ gn \in {NewGetNodes(q, vv) : q \in queries, vv \in bindings}
    /\ qg = NewQuery
    /\ out = <<>>
    /\ served = <<>>
    /\ net = <<>>
    /\ ops = <<>>
    /\ http = <<>>
    /\ calls = <<>>
    /\ polled = <<>>
    /\ NoLedger

NextGetNodes(responses) ==
    \/ StartGetNodes
    \/ QueryNext(responses)
    \/ CheckTotalCount
    \/ NextEdge
    \/ FinalAsserts

(***************************************************************************)
(* SpecNodes: one drain of get_nodes over a server of nodes.               *)
(***************************************************************************)
InitNodes ==
    InitGetNodes(UnparseableQueries \cup {QueryMembers, QueryTwoCollections},
                 {<<>>, << <<>> >>}, Caches, BOOLEAN)

NextNodes == NextGetNodes(NodeResponses)

SpecNodes == InitNodes /\ [][NextNodes]_vars

(***************************************************************************)
(* SpecQuery: one drain of get_nodes, followed for its pagination.         *)
(***************************************************************************)
Bindings ==
    {<<>>, << <<>> >>, << << <<"first", "10">> >> >>,
     << << <<"first", "10">>, <<"cursor", "c2">> >> >>}

InitQuery == InitGetNodes(ParseableQueries, Bindings, Caches, BOOLEAN)

NextQuery == NextGetNodes(InfoResponses)

SpecQuery == InitQuery /\ [][NextQuery]_vars

(***************************************************************************)
(* SpecCache: fetch calls, one after the other, on a MemberfulAPI and a    *)
(* MemberfulCSV that were given the same cache.                            *)
(***************************************************************************)
CursorOnly == << <<"cursor", "">> >>
CursorFirst == << <<"cursor", "">>, <<"first", "10">> >>
\* the bindings of CursorFirst, inserted in the other order
FirstCursor == << <<"first", "10">>, <<"cursor", "">> >>

DirectBindings == {CursorOnly, CursorFirst, FirstCursor}

PageAB == Page(2, PageInfo(TRUE, "c1"), <<NodeA, NodeB>>)
PageC == Page(1, PageInfo(FALSE, None), <<NodeC>>)

DirectResponses == {Response(TRUE, PageC), Failure}

MembersExport == << <<"type", "members">> >>
OrdersExport == << <<"type", "orders">>, <<"scope", "all">> >>

BodyOneRow == <<"id", ",", "email", "\n", "1", ",", "a@x.com", "\n">>
\* a blank line and a row shorter than the header
BodyShortRow == <<"id", ",", "email", "\n", "\n", "2", "\n", "3", ",", "c@x.com">>
BodyNotUtf8 == <<"id", "\n", "0xFF">>

Poll(status, body) == [status |-> status, body |-> body]

Polls ==
    {Poll("ok", BodyOneRow), Poll("ok", BodyShortRow), Poll("ok", BodyNotUtf8),
     Poll("http_error", <<>>), Poll("connection_error", <<>>)}

\* the answers of the website in the cache specification
SharedPolls ==
    {Poll("ok", BodyShortRow), Poll("ok", BodyNotUtf8), Poll("http_error", <<>>),
     Poll("connection_error", <<>>)}

\* caches holding only entries of one client
ApiOnlyCache ==
    CacheSet(EmptyCache, ApiTag, QueryCacheKey(QueryMembers, CursorOnly), PageAB)
CsvOnlyCache ==
    CacheSet(EmptyCache, CsvTag, UrlCacheKey(ExportUrl(MembersExport)), BodyOneRow)
\* a cache holding entries of both clients and of other code
SharedCache ==
    CacheSet(CacheSet(OtherCache, ApiTag,
                      QueryCacheKey(QueryMembers, CursorOnly), PageAB),
             CsvTag, UrlCacheKey(ExportUrl(MembersExport)), BodyOneRow)

SharedCaches ==
    {NoCache, EmptyCache, OtherCache, ApiOnlyCache, CsvOnlyCache, SharedCache}

InitCache ==
    /\ cache \in SharedCaches
    /\ api \in {NewApi(f) : f \in BOOLEAN}
    /\ csv \in {NewCsv(f) : f \in BOOLEAN}
    /\ gn = NewGetNodes(QueryMembers, <<>>)
    /\ qg = NewQuery
    /\ out = <<>>
    /\ served = <<>>
    /\ net = <<>>
    /\ ops = <<>>
    /\ http = <<>>
    /\ calls = <<>>
    /\ polled = <<>>
    /\ NoLedger

NextCache ==
    \/ \E variable_values \in DirectBindings :
          ExecuteQuery(QueryMembers, variable_values, DirectResponses)
    \/ \E params \in {MembersExport, OrdersExport} : DownloadCsv(params)
    \/ CsvSession
    \/ CsvToken
    \/ CsvPost
    \/ CsvPoll(SharedPolls)

SpecCache == InitCache /\ [][NextCache]_vars

(***************************************************************************)
(* The subscription activity ledger (juniorguru/models/subscription.py):   *)
(* the table of SubscriptionActivity, its upsert add and the two passes of *)
(* mark_trials.  A row is the record of its columns, the id that the       *)
(* database gives it included; a date or a time is a number; a column that *)
(* is null holds None.                                                     *)
(***************************************************************************)
TRIAL_START == "trial_start"
TRIAL_END == "trial_end"
ORDER == "order"
DEACTIVATION == "deactivation"
SubscriptionActivityType == {TRIAL_START, TRIAL_END, ORDER, DEACTIVATION}

MONTH == "month"
YEAR == "year"
SubscriptionInterval == {MONTH, YEAR}

FREE == "free"
FINAID == "finaid"
INDIVIDUAL == "individual"
TRIAL == "trial"
PARTNER == "partner"
STUDENT == "student"
SubscriptionType == {FREE, FINAID, INDIVIDUAL, TRIAL, PARTNER, STUDENT}

\* the keyword arguments of one add call
Activity(type, account_id, happened_on, happened_at, account_has_feminine_name, order_coupon, subscription_interval, subscription_type) ==
    [type |-> type, account_id |-> account_id, happened_on |-> happened_on,
     happened_at |-> happened_at,
     account_has_feminine_name |-> account_has_feminine_name,
     order_coupon |-> order_coupon,
     subscription_interval |-> subscription_interval,
     subscription_type |-> subscription_type]

\* the columns of the unique index: cls._meta.indexes[0][0]
unique_key_fields == {"type", "account_id", "happened_on"}

Key(r) == <<r.type, r.account_id, r.happened_on>>

\* cls.insert(**kwargs): the new row gets the next id of the table
Inserted(table, kwargs) ==
    [id |-> Cardinality(table) + 1,
     type |-> kwargs.type, account_id |-> kwargs.account_id,
     happened_on |-> kwargs.happened_on, happened_at |-> kwargs.happened_at,
     account_has_feminine_name |-> kwargs.account_has_feminine_name,
     order_coupon |-> kwargs.order_coupon,
     subscription_interval |-> kwargs.subscription_interval,
     subscription_type |-> kwargs.subscription_type]

\* the insert always goes through
ConflictsWith_Never(row, kwargs) == FALSE

\* the day is not part of the conflict target
ConflictsWith_AnyDay(row, kwargs) ==
    row.type = kwargs.type /\ row.account_id = kwargs.account_id

\* conflict_target: the row that holds the key of the new record
ConflictsWith(row, kwargs) == Key(row) = Key(kwargs)

\* the column is written whatever the value
Updated_NullOverwrites(stored, value) == value

\* the dict `update`: a field is written when its value is not None
Updated(stored, value) == IF value # None THEN value ELSE stored

\* the time is written like any other field
LatestAt_Incoming(stored, incoming) == incoming

\* Case(None, [(cls.happened_at < kwargs['happened_at'], kwargs['happened_at'])],
\*      cls.happened_at), the assignment to happened_at that takes effect
LatestAt(stored, incoming) == IF stored < incoming THEN incoming ELSE stored

\* on_conflict(action='update', update=update): the key columns are not in
\* `update`; account_has_feminine_name is never None
OnConflictUpdate(row, kwargs) ==
    [row EXCEPT
        !.account_has_feminine_name = kwargs.account_has_feminine_name,
        !.order_coupon = Updated(@, kwargs.order_coupon),
        !.subscription_interval = Updated(@, kwargs.subscription_interval),
        !.subscription_type = Updated(@, kwargs.subscription_type),
        !.happened_at = LatestAt(@, kwargs.happened_at)]

\* SubscriptionActivity.add(**kwargs) on a table
add(table, kwargs) ==
    LET conflicts == {row \in table : ConflictsWith(row, kwargs)}
    IN IF conflicts = {} THEN table \cup {Inserted(table, kwargs)}
       ELSE (table \ conflicts) \cup {OnConflictUpdate(row, kwargs) : row \in conflicts}

\* add for every record of a batch, in order
RECURSIVE add_all(_, _)
add_all(table, batch) ==
    IF batch = <<>> THEN table ELSE add_all(add(table, Head(batch)), Tail(batch))

\* mark_trials, lines 98-103: the orders that happened on the day of a
\* trial_end of the same account
new_subscription_type(table) ==
    {[account_id |-> o.account_id, happened_on |-> o.happened_on,
      subscription_type |-> o.subscription_type] :
        o \in {r \in table :
                  /\ r.type = ORDER
                  /\ \E e \in table : /\ e.type = TRIAL_END
                                      /\ e.account_id = r.account_id
                                      /\ e.happened_on = r.happened_on}}

\* only the account is compared
Propagates_ToLaterDays(row, c) == row.account_id = c.account_id

\* mark_trials, lines 107-108: the rows an order of the CTE is joined to
Propagates(row, c) ==
    /\ row.account_id = c.account_id
    /\ row.happened_on <= c.happened_on

\* mark_trials, lines 104-109: UPDATE ... FROM.  A row joined to several
\* rows of the CTE takes the value of one of them, whichever the database
\* picks; the CTE is read from the table as it was before the update.
RECURSIVE PassOneOutcomes(_, _)
PassOneOutcomes(rows, cte) ==
    IF rows = {} THEN {{}}
    ELSE LET row == CHOOSE r \in rows : TRUE
             joined == {c \in cte : Propagates(row, c)}
             after == IF joined = {} THEN {row}
                      ELSE {[row EXCEPT !.subscription_type = c.subscription_type] :
                                c \in joined}
         IN {rest \cup {r} : rest \in PassOneOutcomes(rows \ {row}, cte), r \in after}

\* the trial_end of the window is left as it is
InTrial_EndExcluded(row, e) ==
    \/ row.type = ORDER /\ row.happened_on < e.happened_on
    \/ row.type = TRIAL_START /\ row.happened_on < e.happened_on

\* the order of the day of the trial_end is part of the trial
InTrial_OrderOnEndDay(row, e) ==
    \/ row.type = ORDER /\ row.happened_on <= e.happened_on
    \/ row.type = TRIAL_END /\ row.happened_on = e.happened_on
    \/ row.type = TRIAL_START /\ row.happened_on < e.happened_on

\* mark_trials, lines 117-119: the rows of the trial that ends with e
InTrial(row, e) ==
    \/ row.type = ORDER /\ row.happened_on < e.happened_on
    \/ row.type = TRIAL_END /\ row.happened_on = e.happened_on
    \/ row.type = TRIAL_START /\ row.happened_on < e.happened_on

\* the type of the trial_end is not looked at
to_update_AnyTrialEnd(table) ==
    {row \in table :
        \E e \in table : /\ row.account_id = e.account_id
                         /\ e.type = TRIAL_END
                         /\ InTrial(row, e)}

\* mark_trials, lines 113-119: the rows selected for the second update
to_update(table) ==
    {row \in table :
        \E e \in table : /\ row.account_id = e.account_id
                         /\ e.type = TRIAL_END
                         /\ e.subscription_type = INDIVIDUAL
                         /\ InTrial(row, e)}

\* mark_trials, lines 120-122
PassTwo(table) ==
    {IF row \in to_update(table) THEN [row EXCEPT !.subscription_type = TRIAL]
     ELSE row : row \in table}

\* the clients are not used while the ledger is followed
IdleClients ==
    /\ cache = NoCache
    /\ api = NewApi(FALSE)
    /\ csv = NewCsv(FALSE)
    /\ gn = NewGetNodes(QueryMembers, <<>>)
    /\ qg = NewQuery
    /\ out = <<>>
    /\ served = <<>>
    /\ net = <<>>
    /\ ops = <<>>
    /\ http = <<>>
    /\ calls = <<>>
    /\ polled = <<>>

\* records added to the ledger in one run
MaxAdds == 3

\* one call of SubscriptionActivity.add
Add(kwargs) ==
    /\ mt = "idle"
    /\ Len(added) < MaxAdds
    /\ ledger' = add(ledger, kwargs)
    /\ added' = Append(added, kwargs)
    /\ UNCHANGED <<replica, readded, mt, stat>>
    /\ UNCHANGED memberfulVars

\* batches ingested into one database in one run
MaxBatches == 2

\* an ingestion job adds the records of one batch to the ledger
IngestBatch(batch) ==
    /\ mt = "idle"
    /\ Len(added) + Len(batch) <= 2 * MaxBatches
    /\ ledger' = add_all(ledger, batch)
    /\ added' = added \o batch
    /\ UNCHANGED <<replica, readded, mt, stat>>
    /\ UNCHANGED memberfulVars

\* and to the table of the second database
ReplicaIngestBatch(batch) ==
    /\ mt = "idle"
    /\ Len(readded) + Len(batch) <= 2 * MaxBatches
    /\ replica' = add_all(replica, batch)
    /\ readded' = readded \o batch
    /\ UNCHANGED <<ledger, added, mt, stat>>
    /\ UNCHANGED memberfulVars

\* mark_trials, lines 95-109: the first update
MarkTrialsPassOne ==
    /\ mt = "idle"
    /\ ledger' \in PassOneOutcomes(ledger, new_subscription_type(ledger))
    /\ mt' = "pass1"
    /\ UNCHANGED <<replica, added, readded, stat>>
    /\ UNCHANGED memberfulVars

\* mark_trials, lines 111-122: the second update, and the return
MarkTrialsPassTwo ==
    /\ mt = "pass1"
    /\ ledger' = PassTwo(ledger)
    /\ mt' = "done"
    /\ UNCHANGED <<replica, added, readded, stat>>
    /\ UNCHANGED memberfulVars

(***************************************************************************)
(* The statistics read from the table.  In the ledgers they are asked of,  *)
(* a date is the number yyyymmdd and a time the number yyyymmddhh.  What a *)
(* statistic gives is how it returned (None, an int, a dict, rows, or the  *)
(* error raised), the value as <<>>, <<n>> or the pairs of the dict, and   *)
(* the rows of a listing.                                                  *)
(***************************************************************************)
\* date(2023, 2, 24)
LEGACY_PLANS_DELETED_ON == 20230224

\* the days of a month of the calendar
DaysIn(year, month) ==
    IF month = 2
    THEN (IF year % 4 = 0 /\ (year % 100 # 0 \/ year % 400 = 0) THEN 29 ELSE 28)
    ELSE IF month \in {4, 6, 9, 11} THEN 30 ELSE 31

\* juniorguru.lib.charts.month_range: the first and the last day of the
\* month of a date
month_range(d) ==
    LET ym == d \div 100
    IN <<ym * 100 + 1, ym * 100 + DaysIn(ym \div 100, ym % 100)>>

\* only the day of the cutoff is compared
is_missing_subscriptions_data_BeforeOnly(month) == month < LEGACY_PLANS_DELETED_ON

is_missing_subscriptions_data(month) ==
    IF month < LEGACY_PLANS_DELETED_ON THEN TRUE
    ELSE IF month_range(month) = month_range(LEGACY_PLANS_DELETED_ON) THEN TRUE
    ELSE FALSE

Returned(returned, value) == [returned |-> returned, value |-> value]

\* listing, lines 130-133: for every account with a row up to the date, the
\* greatest happened_at of those rows
latest(table, date) ==
    LET upto == {r \in table : r.happened_on <= date}
    IN {[account_id |-> a,
         latest_at |-> CHOOSE at \in {r.happened_at : r \in {x \in upto : x.account_id = a}} :
                          \A r \in upto : r.account_id = a => r.happened_at <= at] :
            a \in {r.account_id : r \in upto}}

\* listing, lines 134-136: the rows of the table joined to `latest` on the
\* account and on the time
listing(table, date) ==
    {r \in table : \E l \in latest(table, date) : /\ r.account_id = l.account_id
                                                  /\ r.happened_at = l.latest_at}

active_listing(table, date) ==
    {r \in listing(table, date) : r.type # DEACTIVATION}

active_count(table, date) == Cardinality(active_listing(table, date))

\* the methods under the wrapper, lines 149-152 and 156-160
active_individuals_count(table, date) ==
    Returned("int", <<Cardinality({r \in active_listing(table, date) :
                                      r.subscription_type = INDIVIDUAL})>>)

active_individuals_yearly_count(table, date) ==
    Returned("int", <<Cardinality({r \in active_listing(table, date) :
                                      /\ r.subscription_type = INDIVIDUAL
                                      /\ r.subscription_interval = YEAR})>>)

\* the members of SubscriptionType in the order of the class
SubscriptionTypes == <<FREE, FINAID, INDIVIDUAL, TRIAL, PARTNER, STUDENT>>

\* Counter([activity.subscription_type for activity in ...])[subscription_type]
Counter(rows, subscription_type) ==
    Cardinality({r \in rows : r.subscription_type = subscription_type})

\* the check is left out
NoneInCounter_Never(rows) == FALSE

\* `if None in counter`
NoneInCounter(rows) == \E r \in rows : r.subscription_type = None

\* lines 165-173
active_subscription_type_breakdown(table, date) ==
    LET rows == active_listing(table, date)
    IN IF NoneInCounter(rows) THEN Returned("ValueError", <<>>)
       ELSE Returned("dict", [i \in 1..Len(SubscriptionTypes) |->
                                <<SubscriptionTypes[i], Counter(rows, SubscriptionTypes[i])>>])

\* signups with the where clause of individuals_signups_count, lines 189-193
\* and 202-204: per account the earliest of its individual rows up to the
\* end of the month, kept when that row is dated in the month (the column
\* of HAVING is read from the row of the minimum; rows of one time have one
\* date in the ledgers asked)
individuals_signups_count(table, date) ==
    LET from_date == month_range(date)[1]
        to_date == month_range(date)[2]
        rows == {r \in table : /\ r.happened_on <= to_date
                               /\ r.subscription_type = INDIVIDUAL}
        earliest(a) == {r \in rows : /\ r.account_id = a
                                     /\ \A x \in rows : x.account_id = a
                                           => r.happened_at <= x.happened_at}
    IN Returned("int", <<Cardinality({a \in {r.account_id : r \in rows} :
                                         \E r \in earliest(a) : r.happened_on >= from_date})>>)

\* the method that a wrapper was put around
class_method(method, table, date) ==
    CASE method = "active_individuals_count" -> active_individuals_count(table, date)
      [] method = "active_individuals_yearly_count" ->
            active_individuals_yearly_count(table, date)
      [] method = "active_subscription_type_breakdown" ->
            active_subscription_type_breakdown(table, date)
      [] method = "individuals_signups_count" -> individuals_signups_count(table, date)

\* the wrapper of uses_data_from_subscriptions(default): class_method is
\* called only when the data is not missing
uses_data_from_subscriptions(default, method, table, date) ==
    IF is_missing_subscriptions_data(date)
    THEN [called |-> FALSE,
          returned |-> IF default # None THEN default ELSE None, value |-> <<>>]
    ELSE LET r == class_method(method, table, date)
         IN [called |-> TRUE, returned |-> r.returned, value |-> r.value]

\* what a statistic gave
Stat(method, date, called, returned, value, rows) ==
    [method |-> method, date |-> date, called |-> called, returned |-> returned,
     value |-> value, rows |-> rows]

Asked(method, date, r) == <<Stat(method, date, r.called, r.returned, r.value, {})>>

\* SubscriptionActivity.listing(date), read to its end
Listing(date) ==
    /\ stat' = <<Stat("listing", date, TRUE, "rows", <<>>, listing(ledger, date))>>
    /\ UNCHANGED <<ledger, replica, added, readded, mt>>
    /\ UNCHANGED memberfulVars

ActiveCount(date) ==
    /\ stat' = <<Stat("active_count", date, TRUE, "int",
                      <<active_count(ledger, date)>>, {})>>
    /\ UNCHANGED <<ledger, replica, added, readded, mt>>
    /\ UNCHANGED memberfulVars

ActiveIndividualsCount(date) ==
    /\ stat' = Asked("active_individuals_count", date,
                     uses_data_from_subscriptions(None, "active_individuals_count",
                                                  ledger, date))
    /\ UNCHANGED <<ledger, replica, added, readded, mt>>
    /\ UNCHANGED memberfulVars

ActiveIndividualsYearlyCount(date) ==
    /\ stat' = Asked("active_individuals_yearly_count", date,
                     uses_data_from_subscriptions(None, "active_individuals_yearly_count",
                                                  ledger, date))
    /\ UNCHANGED <<ledger, replica, added, readded, mt>>
    /\ UNCHANGED memberfulVars

ActiveSubscriptionTypeBreakdown(date) ==
    /\ stat' = Asked("active_subscription_type_breakdown", date,
                     uses_data_from_subscriptions("dict", "active_subscription_type_breakdown",
                                                  ledger, date))
    /\ UNCHANGED <<ledger, replica, added, readded, mt>>
    /\ UNCHANGED memberfulVars

IndividualsSignupsCount(date) ==
    /\ stat' = Asked("individuals_signups_count", date,
                     uses_data_from_subscriptions(None, "individuals_signups_count",
                                                  ledger, date))
    /\ UNCHANGED <<ledger, replica, added, readded, mt>>
    /\ UNCHANGED memberfulVars

\* a second call of mark_trials, lines 95-109: its first update; the second
\* database takes the rows as the first call left them
MarkTrialsAgainPassOne ==
    /\ mt = "done"
    /\ ledger' \in PassOneOutcomes(ledger, new_subscription_type(ledger))
    /\ replica' = ledger
    /\ mt' = "pass1 again"
    /\ UNCHANGED <<added, readded, stat>>
    /\ UNCHANGED memberfulVars

\* lines 111-122 of the second call
MarkTrialsAgainPassTwo ==
    /\ mt = "pass1 again"
    /\ ledger' = PassTwo(ledger)
    /\ mt' = "done again"
    /\ UNCHANGED <<replica, added, readded, stat>>
    /\ UNCHANGED memberfulVars

(***************************************************************************)
(* SpecLedger: records added one by one to an empty ledger.                *)
(***************************************************************************)
\* keys that differ in one column each from the first
LedgerKeys ==
    {<<ORDER, "1", 1>>, <<ORDER, "1", 2>>, <<ORDER, "2", 1>>, <<TRIAL_END, "1", 1>>}

\* the nullable columns of a record: all null, all set, some set
LedgerDeltas ==
    {<<FALSE, None, None, None>>, <<FALSE, "A", MONTH, INDIVIDUAL>>,
     <<TRUE, "B", None, TRIAL>>}

LedgerRecords ==
    {Activity(k[1], k[2], k[3], at, d[1], d[2], d[3], d[4]) :
        k \in LedgerKeys, at \in {10, 20}, d \in LedgerDeltas}

InitLedger ==
    /\ IdleClients
    /\ ledger = {}
    /\ replica = {}
    /\ added = <<>>
    /\ readded = <<>>
    /\ mt = "idle"
    /\ stat = <<>>

NextLedger == \E kwargs \in LedgerRecords : Add(kwargs)

SpecLedger == InitLedger /\ [][NextLedger]_vars

(***************************************************************************)
(* SpecBatches: batches of records ingested into two databases that start  *)
(* with the same rows.                                                     *)
(***************************************************************************)
\* an order with every column set, a stale record of the same order with
\* another coupon, and a trial_end of the same account and day
RecordA == Activity(ORDER, "1", 1, 20, FALSE, "A", MONTH, INDIVIDUAL)
RecordB == Activity(ORDER, "1", 1, 10, TRUE, "B", None, None)
RecordC == Activity(TRIAL_END, "1", 1, 30, FALSE, None, None, STUDENT)

BatchRecords == {RecordA, RecordB, RecordC}

\* a batch: two different records
Batches == {<<a, b>> : a, b \in BatchRecords} \ {<<a, a>> : a \in BatchRecords}

\* a ledger that holds the order already, at a time between its two records
StartLedgers ==
    {{}, add({}, Activity(ORDER, "1", 1, 15, FALSE, None, YEAR, FINAID))}

InitBatches ==
    /\ IdleClients
    /\ ledger \in StartLedgers
    /\ replica = ledger
    /\ added = <<>>
    /\ readded = <<>>
    /\ mt = "idle"
    /\ stat = <<>>

NextBatches ==
    \/ \E batch \in Batches : IngestBatch(batch)
    \/ \E batch \in Batches : ReplicaIngestBatch(batch)

SpecBatches == InitBatches /\ [][NextBatches]_vars

(***************************************************************************)
(* SpecTrials: mark_trials on a ledger that ingestion has filled.  The     *)
(* second database keeps the rows as they were before.                     *)
(***************************************************************************)
\* rows of one account in a ledger
MaxRows == 5

\* the activities an account may have: a type and a day
TrialSlots ==
    <<<<TRIAL_START, 1>>, <<ORDER, 5>>, <<TRIAL_END, 5>>, <<DEACTIVATION, 5>>,
      <<TRIAL_END, 10>>, <<ORDER, 10>>, <<ORDER, 12>>, <<TRIAL_END, 12>>>>

Absent == "absent"

\* for every slot: no activity, or the subscription_type of the activity
\* (null, individual or, for an order, student)
Histories ==
    {h \in [1..Len(TrialSlots) -> {Absent, None, INDIVIDUAL, STUDENT}] :
        /\ Cardinality({i \in 1..Len(TrialSlots) : h[i] # Absent}) <= MaxRows
        /\ \A i \in 1..Len(TrialSlots) : h[i] = STUDENT => TrialSlots[i][1] = ORDER}

\* the records of a history, in the order of the slots
RECURSIVE HistoryRecords(_, _, _)
HistoryRecords(account_id, h, i) ==
    IF i > Len(TrialSlots) THEN <<>>
    ELSE (IF h[i] = Absent THEN <<>>
          ELSE <<Activity(TrialSlots[i][1], account_id, TrialSlots[i][2],
                          10 * TrialSlots[i][2] + i, FALSE, None, None, h[i])>>)
            \o HistoryRecords(account_id, h, i + 1)

\* another account: none, one whose trial ended as individual without an
\* order, one with an order before its trial started, one with a partner
\* order on the day its trial ended
OtherAccounts ==
    {<<>>,
     <<Activity(TRIAL_START, "2", 1, 11, TRUE, None, None, None),
       Activity(TRIAL_END, "2", 10, 101, TRUE, None, None, INDIVIDUAL)>>,
     <<Activity(ORDER, "2", 1, 11, TRUE, None, MONTH, FREE),
       Activity(TRIAL_START, "2", 3, 31, TRUE, None, None, None),
       Activity(TRIAL_END, "2", 10, 101, TRUE, None, None, INDIVIDUAL)>>,
     <<Activity(DEACTIVATION, "2", 1, 12, TRUE, None, None, FREE),
       Activity(ORDER, "2", 10, 102, TRUE, None, YEAR, PARTNER),
       Activity(TRIAL_END, "2", 10, 103, TRUE, None, None, None)>>}

InitTrials ==
    /\ IdleClients
    /\ ledger \in {add_all({}, HistoryRecords("1", h, 1) \o other) :
                      h \in Histories, other \in OtherAccounts}
    /\ replica = ledger
    /\ added = <<>>
    /\ readded = <<>>
    /\ mt = "idle"
    /\ stat = <<>>

NextTrials ==
    \/ MarkTrialsPassOne
    \/ MarkTrialsPassTwo

SpecTrials == InitTrials /\ [][NextTrials]_vars

(***************************************************************************)
(* SpecAgain: mark_trials called twice on a ledger that ingestion has      *)
(* filled.                                                                 *)
(***************************************************************************)
NextAgain ==
    \/ MarkTrialsPassOne
    \/ MarkTrialsPassTwo
    \/ MarkTrialsAgainPassOne
    \/ MarkTrialsAgainPassTwo

SpecAgain == InitTrials /\ [][NextAgain]_vars

(***************************************************************************)
(* SpecStats: statistics asked of a ledger that ingestion has filled.      *)
(***************************************************************************)
\* the activities an account may have: a type, a date, an hour and an
\* interval; the order and the trial_end of 1 March have one time
StatSlots ==
    <<<<TRIAL_START, 20230110, 9, None>>, <<ORDER, 20230301, 9, YEAR>>,
      <<TRIAL_END, 20230301, 9, None>>, <<DEACTIVATION, 20230315, 12, None>>,
      <<ORDER, 20230402, 8, MONTH>>>>

\* for every slot: no activity, or the subscription_type of the activity
StatHistories == [1..Len(StatSlots) -> {Absent, None, INDIVIDUAL}]

RECURSIVE StatRecords(_, _, _)
StatRecords(account_id, h, i) ==
    IF i > Len(StatSlots) THEN <<>>
    ELSE (IF h[i] = Absent THEN <<>>
          ELSE <<Activity(StatSlots[i][1], account_id, StatSlots[i][2],
                          100 * StatSlots[i][2] + StatSlots[i][3], FALSE, None,
                          StatSlots[i][4], h[i])>>)
            \o StatRecords(account_id, h, i + 1)

\* another account: none, a partner since 1 March, an individual who signed
\* up in January and was deactivated in March
StatOtherAccounts ==
    {<<>>,
     <<Activity(ORDER, "2", 20230301, 2023030110, TRUE, None, MONTH, PARTNER)>>,
     <<Activity(ORDER, "2", 20230120, 2023012010, TRUE, "A", YEAR, INDIVIDUAL),
       Activity(DEACTIVATION, "2", 20230305, 2023030510, TRUE, None, None, None)>>}

\* the dates asked: before the cutoff, in its month after it, in later
\* months, in February a year later
StatDates == {20230115, 20230225, 20230301, 20230320, 20230410, 20240201}

InitStats ==
    /\ IdleClients
    /\ ledger \in {add_all({}, StatRecords("1", h, 1) \o other) :
                      h \in StatHistories, other \in StatOtherAccounts}
    /\ replica = ledger
    /\ added = <<>>
    /\ readded = <<>>
    /\ mt = "idle"
    /\ stat = <<>>

NextStats ==
    \/ \E date \in StatDates : Listing(date)
    \/ \E date \in StatDates : ActiveCount(date)
    \/ \E date \in StatDates : ActiveIndividualsCount(date)
    \/ \E date \in StatDates : ActiveIndividualsYearlyCount(date)
    \/ \E date \in StatDates : ActiveSubscriptionTypeBreakdown(date)
    \/ \E date \in StatDates : IndividualsSignupsCount(date)

SpecStats == InitStats /\ [][NextStats]_vars

(***************************************************************************)
(* Properties of the node stream (SpecNodes).                              *)
(***************************************************************************)
\* the identity of a node: its id, or the hash of its content when it has
\* none (an empty id counts as none)
Identity(node) ==
    IF node.id # None /\ node.id # "" THEN <<node.id>>
    ELSE <<"sha256">> \o NodeText(node)

\* every node of the pages, in page order
RECURSIVE AllEdges(_)
AllEdges(pages) ==
    IF pages = <<>> THEN <<>> ELSE Head(pages).edges \o AllEdges(Tail(pages))

\* a sequence of nodes without the nodes whose identity came before
RECURSIVE Deduplicated(_, _)
Deduplicated(nodes, seen) ==
    IF nodes = <<>> THEN <<>>
    ELSE IF Identity(Head(nodes)) \in seen THEN Deduplicated(Tail(nodes), seen)
    ELSE <<Head(nodes)>>
            \o Deduplicated(Tail(nodes), seen \cup {Identity(Head(nodes))})

Drained == qg.pc = "returned"
Ended == gn.pc \in {"returned", "raised"}

\* C1: the nodes get_nodes has yielded hold every identity at most once, at
\* every point of the drain and whether or not it later ends in an error.
C1_IdentitiesUnique ==
    \A i, j \in 1..Len(out) : i # j => Identity(out[i]) # Identity(out[j])

\* a drain that dropped a duplicate, yielded other nodes and ended in an error
C1_Witness ==
    /\ gn.pc = "raised"
    /\ gn.duplicates_count > 0
    /\ Len(out) >= 3
    /\ Len(AllEdges(served)) > Len(out)

\* C2: once the pagination is drained with a duplicate counted, get_nodes does
\* not complete normally: it is about to fail or has failed with the
\* duplicates error.
C2_DuplicatesRaise ==
    /\ gn.pc = "returned" => gn.duplicates_count = 0
    /\ (Drained /\ gn.duplicates_count > 0) =>
          /\ gn.pc \in {"final", "raised"}
          /\ gn.pc = "raised" => gn.err = "AssertionError: duplicates"

\* a drained pagination whose only defect is a duplicate, ended in the error
C2_Witness ==
    /\ Drained
    /\ gn.pc = "raised"
    /\ gn.duplicates_count = 1
    /\ gn.declared_count = <<gn.nodes_count>>

\* the two pages of the example: totalCount 3 on both, A, B and A again on
\* the first, C on the second
C3_Scenario ==
    /\ Len(served) = 2
    /\ served[1].totalCount = 3 /\ served[2].totalCount = 3
    /\ served[1].edges = <<NodeA, NodeB, NodeA>>
    /\ served[2].edges = <<NodeC>>
    /\ Drained
    /\ Ended

\* C3 as stated: the drain of the example yields A, B, C, counts one
\* duplicate and raises no error.
C3_Original ==
    C3_Scenario =>
        /\ out = <<NodeA, NodeB, NodeC>>
        /\ gn.duplicates_count = 1
        /\ gn.pc = "returned"

\* C3 amended: the drain of the example yields A, B, C, counts one duplicate
\* and then raises the duplicates error.
C3_Amended ==
    C3_Scenario =>
        /\ out = <<NodeA, NodeB, NodeC>>
        /\ gn.duplicates_count = 1
        /\ gn.pc = "raised"
        /\ gn.err = "AssertionError: duplicates"

C3_Witness == C3_Scenario /\ out = <<NodeA, NodeB, NodeC>>

\* C4: get_nodes completes normally only if it yielded as many nodes as every
\* page declared; drained with another number of yielded nodes, it is about
\* to fail or has failed with one of its two final errors.
C4_CountChecked ==
    /\ gn.pc = "returned" =>
          \A k \in 1..Len(served) : served[k].totalCount = Len(out)
    /\ (Drained /\ Len(out) # served[1].totalCount) =>
          /\ gn.pc \in {"final", "raised"}
          /\ gn.pc = "raised" =>
                gn.err \in {"AssertionError: duplicates",
                            "AssertionError: nodes count"}

\* a drain without duplicates that yielded fewer nodes than declared and failed
C4_Witness ==
    /\ Drained
    /\ gn.pc = "raised"
    /\ gn.duplicates_count = 0
    /\ Len(out) = 2
    /\ served[1].totalCount = 3

\* the pages whose totalCount is not the first page's
Disagreeing == {k \in 1..Len(served) : served[k].totalCount # served[1].totalCount}

\* C5: when a page declares another totalCount than the first page, get_nodes
\* raises on that page: the page is the last one requested, and the output
\* is what the pages before it gave.
C5_TotalCountAgrees ==
    \A k \in Disagreeing :
        /\ Len(served) = k
        /\ qg.pc = "yielded" /\ qg.n = k - 1
        /\ Len(calls) = k
        /\ gn.pc \in {"page", "raised"}
        /\ gn.pc = "raised" => gn.err = "AssertionError: total count"
        /\ out = Deduplicated(AllEdges(SubSeq(served, 1, k - 1)), {})

\* a second page with another totalCount, carrying nodes, after a first page
\* whose nodes were yielded
C5_Witness ==
    /\ Disagreeing = {2}
    /\ gn.pc = "raised"
    /\ out # <<>>
    /\ served[2].edges # <<>>

\* C8: a query without the `<name>(after: $cursor` pattern makes get_nodes
\* fail with the parse error in its first step, which sends no request,
\* touches no cache entry, leaves the clear flag alone and yields nothing.
C8_ParseErrorFirst ==
    [][(gn.query \in UnparseableQueries /\ gn.pc = "created") =>
          /\ gn'.pc = "raised" /\ gn'.err = "ValueError"
          /\ UNCHANGED <<cache, api, qg, out, served, net, ops, calls>>]_vars

\* the parse error on a client whose cache holds entries and whose clear flag
\* is set
C8_Witness ==
    /\ gn.query \in UnparseableQueries
    /\ gn.pc = "raised"
    /\ api.clear_cache
    /\ CacheTruthy(cache)
    /\ calls = <<>>

(***************************************************************************)
(* Properties of the pagination (SpecQuery).                               *)
(***************************************************************************)
\* C6: the first request carries cursor "", request n+1 carries the endCursor
\* of response n, every request carries the caller's query and bindings after
\* the cursor, and the responses are yielded one per request, in order.
C6_CursorChain ==
    /\ \A n \in 1..Len(calls) :
          /\ calls[n].client = "api"
          /\ calls[n].query = gn.query
          /\ Head(calls[n].variable_values) =
                <<"cursor", IF n = 1 THEN "" ELSE served[n - 1].pageInfo.endCursor>>
          /\ Tail(calls[n].variable_values) =
                (IF gn.variable_values = <<>> THEN <<>> ELSE gn.variable_values[1])
    /\ Len(served) \in {Len(calls), Len(calls) - 1}
    /\ Len(served) < Len(calls) => gn.err = "TransportError"

\* a second request with the first response's endCursor and the caller's
\* binding
C6_Witness ==
    /\ Len(calls) = 2
    /\ calls[2].variable_values = << <<"cursor", "c2">>, <<"first", "10">> >>
    /\ Len(served) = 2

\* C7 as stated: the pagination ends exactly after the first response whose
\* hasNextPage is false, whatever the endCursor.
C7_Original ==
    Drained =>
        /\ served # <<>>
        /\ ~served[Len(served)].pageInfo.hasNextPage
        /\ \A k \in 1..(Len(served) - 1) : served[k].pageInfo.hasNextPage

(***************************************************************************)
(* Properties of the cache layer (SpecCache).                              *)
(***************************************************************************)
SameRequest(a, b) ==
    /\ a.client = b.client
    /\ a.query = b.query
    /\ a.variable_values = b.variable_values

\* C9 as stated: with a cache present, empty or not, a request that one
\* _execute_query call fetched is answered to a later identical call from the
\* cache, so that the two calls make one network call.
C9_Original ==
    cache.present =>
        \A i, j \in 1..Len(calls) :
            (/\ i < j
             /\ calls[i].client = "api"
             /\ SameRequest(calls[i], calls[j])
             /\ calls[i].outcome = "returned" /\ calls[j].outcome = "returned"
             /\ calls[i].sent = 1)
            => calls[j].sent = 0

ClientTag(client) == IF client = "api" THEN ApiTag ELSE CsvTag
ClientGiven(client) == IF client = "api" THEN api.given ELSE csv.given
ClientFlag(client) == IF client = "api" THEN api.clear_cache ELSE csv.clear_cache

CallsOf(client) == {i \in 1..Len(calls) : calls[i].client = client}
OpsOf(client) == {k \in 1..Len(ops) : ops[k].tag = ClientTag(client)}

RECURSIVE SentBy(_)
SentBy(is) ==
    IF is = {} THEN 0
    ELSE LET i == CHOOSE x \in is : TRUE IN calls[i].sent + SentBy(is \ {i})

\* C10 as stated: a client created with the clear flag and given a cache
\* evicts its tag exactly once, immediately before its first lookup, has
\* consumed the flag after its first fetch call, and fetches a request that
\* it repeats after the clear exactly once.
C10_Original ==
    \A client \in {"api", "csv"} :
        (/\ ClientGiven(client)
         /\ cache.present
         /\ CallsOf(client) # {}
         /\ csv.pc = "idle")
        => /\ ~ClientFlag(client)
           /\ \E k \in OpsOf(client) :
                 /\ ops[k].op = "evict"
                 /\ \A m \in OpsOf(client) : m >= k /\ (m # k => ops[m].op # "evict")
                 /\ k < Len(ops) /\ ops[k + 1].op = "get"
                 /\ ops[k + 1].tag = ClientTag(client)
           /\ \A i \in CallsOf(client) :
                 LET same == {j \in CallsOf(client) : SameRequest(calls[i], calls[j])}
                 IN (\A j \in same : calls[j].outcome = "returned")
                        => SentBy(same) = 1

(***************************************************************************)
(* Properties of the fetches and of the CSV export (SpecCache).            *)
(***************************************************************************)
LastCall == calls[Len(calls)]

\* the cache as the pending eviction of a client leaves it
AfterPendingEviction(c, client) ==
    IF ClientFlag(client) THEN [c EXCEPT !.entries[ClientTag(client)] = <<>>]
    ELSE c

\* C11: a step of a fetch call changes the entries of the cache, beyond the
\* pending eviction its first step performs, only when it ends the call
\* normally after a fetch from the network; a step that ends the call in an
\* error (GraphQL execution, login, export request, polling) leaves the
\* entries as they were before the fetch was attempted.
C11_FailedFetchesStoreNothing ==
    [][calls' # <<>> =>
          LET this == calls'[Len(calls')]
              before == IF Len(calls') > Len(calls)
                        THEN AfterPendingEviction(cache, this.client)
                        ELSE cache
          IN /\ (calls' # calls /\ this.outcome = "raised") => cache' = before
             /\ cache' # before =>
                   /\ calls' # calls
                   /\ this.outcome = "returned"
                   /\ this.sent = 1]_vars

\* a GraphQL execution that raised and a download that ran out of polls, on
\* a cache that still holds entries
C11_Witness ==
    /\ Len(calls) = 2
    /\ calls[1].client = "api" /\ calls[1].outcome = "raised" /\ calls[1].sent = 1
    /\ calls[2].client = "csv" /\ calls[2].outcome = "raised"
    /\ csv.pc = "idle" /\ csv.err = "DownloadError"
    /\ CacheTruthy(cache)

\* a download_csv call that went to the website has ended
Downloaded ==
    /\ calls # <<>>
    /\ LastCall.client = "csv"
    /\ LastCall.sent = 1
    /\ csv.pc = "idle"

\* what the call did on the website after its export request
AfterExportRequest ==
    LET posted == {i \in 1..Len(http) : http[i].what = "csv_exports"}
    IN IF posted = {} THEN <<>>
       ELSE SubSeq(http, (CHOOSE i \in posted : TRUE) + 1, Len(http))

\* k poll attempts, each after one wait of 5 seconds
Attempts(k) ==
    [i \in 1..(2 * k) |-> IF i % 2 = 1 THEN [do |-> "sleep", what |-> "", sec |-> 5]
                          ELSE [do |-> "GET", what |-> "download", sec |-> 0]]

AllFailed(answers) == \A i \in 1..Len(answers) : answers[i].status = "http_error"

C13_FirstSuccessEndsPolling ==
    \A k \in 1..Len(polled) :
        (/\ polled[k].status = "ok"
         /\ AllFailed(SubSeq(polled, 1, k - 1)))
        => /\ Len(polled) = k
           /\ k <= 9
           /\ Downloaded
           /\ AfterExportRequest = Attempts(k)
           /\ csv.err # "DownloadError"
           /\ LastCall.outcome = "returned" =>
                 /\ csv.err = ""
                 /\ csv.rows = _parse_csv(polled[k].body)
                 /\ ops # <<>> /\ ops[Len(ops)].op = "set" =>
                       LET key == UrlCacheKey(ExportUrl(csv.params))
                       IN /\ ops[Len(ops)].key = key
                          /\ key \in DOMAIN cache.entries[CsvTag]
                          /\ cache.entries[CsvTag][key] = polled[k].body
           /\ LastCall.outcome = "raised" => ~Decodable(polled[k].body)

\* three polls answered with an error status and the fourth with a body,
\* which was parsed and written to the cache
C13_Witness ==
    /\ Downloaded
    /\ Len(polled) = 4
    /\ polled[4].status = "ok"
    /\ LastCall.outcome = "returned"
    /\ csv.rows # <<>>
    /\ ops # <<>> /\ ops[Len(ops)].op = "set"

(***************************************************************************)
(* Properties of the upsert (SpecLedger).                                  *)
(***************************************************************************)
AddedKeys == {Key(added[i]) : i \in 1..Len(added)}

\* the keys of the records, each at its first appearance, in order
RECURSIVE FirstKeys(_, _)
FirstKeys(records, seen) ==
    IF records = <<>> THEN <<>>
    ELSE IF Key(Head(records)) \in seen THEN FirstKeys(Tail(records), seen)
    ELSE <<Key(Head(records))>>
            \o FirstKeys(Tail(records), seen \cup {Key(Head(records))})

\* C14: after any sequence of add calls the ledger holds one row per key
\* added and no other row, and every row still has the key it was inserted
\* with: the n-th row holds the n-th new key that was added.
C14_OneRowPerKey ==
    /\ \A r, s \in ledger : Key(r) = Key(s) => r = s
    /\ {Key(r) : r \in ledger} = AddedKeys
    /\ Cardinality(ledger) = Cardinality(AddedKeys)
    /\ \A r \in ledger :
          /\ r.id \in 1..Len(FirstKeys(added, {}))
          /\ Key(r) = FirstKeys(added, {})[r.id]

\* three adds, two of them on one key, with different values
C14_Witness ==
    /\ Len(added) = 3
    /\ Cardinality(ledger) = 2
    /\ Key(added[1]) = Key(added[3])
    /\ added[1] # added[3]

\* the records added for the key of a row
AddedFor(row) == {i \in 1..Len(added) : Key(added[i]) = Key(row)}

\* C15: the stored happened_at of every key is the greatest happened_at of
\* the records added for that key.
C15_LatestHappenedAt ==
    \A row \in ledger :
        /\ \E i \in AddedFor(row) : row.happened_at = added[i].happened_at
        /\ \A i \in AddedFor(row) : row.happened_at >= added[i].happened_at

\* a key whose last added record is earlier than a record added before
C15_Witness ==
    \E row \in ledger :
        \E i, j \in AddedFor(row) :
            /\ i < j
            /\ j = Len(added)
            /\ added[j].happened_at < added[i].happened_at
            /\ row.happened_at = added[i].happened_at

NullableFields == {"order_coupon", "subscription_interval", "subscription_type"}

\* C18: an add on a key that is stored keeps the row and its key, writes
\* every nullable field whose incoming value is not null and
\* account_has_feminine_name (never null), leaves every nullable field
\* whose incoming value is null as stored, and so never replaces a stored
\* value by null; happened_at is the later of the stored and the incoming.
C18_NullKeepsStored ==
    [][added' # added =>
          LET kwargs == added'[Len(added')]
          IN \A row \in ledger :
                Key(row) = Key(kwargs) =>
                    \E new \in ledger' :
                        /\ new.id = row.id
                        /\ Key(new) = Key(row)
                        /\ new.account_has_feminine_name =
                              kwargs.account_has_feminine_name
                        /\ \A f \in NullableFields :
                              /\ kwargs[f] # None => new[f] = kwargs[f]
                              /\ kwargs[f] = None => new[f] = row[f]
                              /\ row[f] # None => new[f] # None
                        /\ new.happened_at \in {row.happened_at, kwargs.happened_at}
                        /\ new.happened_at >= row.happened_at]_vars

\* a row written with every field, then with another coupon and type and no
\* interval, then with nothing but nulls
C18_Witness ==
    /\ Len(added) = 3
    /\ Cardinality(ledger) = 1
    /\ added[1].subscription_interval = MONTH
    /\ added[2].order_coupon = "B" /\ added[2].subscription_interval = None
    /\ \A f \in NullableFields : added[3][f] = None
    /\ \E row \in ledger :
          /\ row.order_coupon = "B"
          /\ row.subscription_interval = MONTH
          /\ row.subscription_type = TRIAL

(***************************************************************************)
(* Properties of repeated and reordered ingestion (SpecBatches).  Both     *)
(* databases start with the same rows.                                     *)
(***************************************************************************)
\* the batch that was ingested last into the second database
LastBatch == SubSeq(readded, Len(readded) - 1, Len(readded))

\* C16: a database into which a batch was ingested twice in a row holds
\* exactly the rows of a database, started with the same rows and fed the
\* same batches before, into which it was ingested once.
C16_Idempotent ==
    (readded # <<>> /\ added = readded \o LastBatch) => ledger = replica

\* the order and its stale record, ingested twice into a ledger that held
\* the order already
C16_Witness ==
    /\ readded = <<RecordA, RecordB>>
    /\ added = <<RecordA, RecordB, RecordA, RecordB>>
    /\ \E row \in ledger : row.subscription_type = INDIVIDUAL /\ row.happened_at = 20
    /\ ledger = replica

\* the activity records a table stores: its rows without their ids
Stored(table) ==
    {Activity(r.type, r.account_id, r.happened_on, r.happened_at,
              r.account_has_feminine_name, r.order_coupon,
              r.subscription_interval, r.subscription_type) : r \in table}

\* C17 as stated: two batches ingested in one order into one database and
\* in the other order into the other leave the same activity records in
\* both.
C17_Original ==
    \A b1, b2 \in Batches :
        (added = b1 \o b2 /\ readded = b2 \o b1) => Stored(ledger) = Stored(replica)

(***************************************************************************)
(* Properties of the reconciliation (SpecTrials).  replica holds the rows  *)
(* as they were before mark_trials, ledger the rows after it.              *)
(***************************************************************************)
Reconciled == mt = "done"

\* the row of the ledger that was row r before mark_trials
After(r) == CHOOSE new \in ledger : new.id = r.id

Had(account_id, type, happened_on) ==
    \E r \in replica : /\ r.account_id = account_id
                       /\ r.type = type
                       /\ r.happened_on = happened_on

\* the days on which the account had an order and a trial_end
PairDays(account_id) ==
    {r.happened_on : r \in {o \in replica : /\ o.account_id = account_id
                                             /\ o.type = ORDER
                                             /\ Had(account_id, TRIAL_END, o.happened_on)}}

\* the account of the example: trial_start on day 1, trial_end and an
\* individual order on day 10, nothing after day 10
C19_Scenario(account_id) ==
    /\ Had(account_id, TRIAL_START, 1)
    /\ Had(account_id, TRIAL_END, 10)
    /\ \E o \in replica : /\ o.account_id = account_id
                          /\ o.type = ORDER
                          /\ o.happened_on = 10
                          /\ o.subscription_type = INDIVIDUAL
    /\ \A r \in replica : r.account_id = account_id => r.happened_on \in 1..10

Accounts == {r.account_id : r \in replica}

PaidTrialEnds ==
    {o \in replica : /\ o.type = ORDER
                     /\ o.subscription_type # INDIVIDUAL
                     /\ Had(o.account_id, TRIAL_END, o.happened_on)}

\* the subscription types of the orders an account had
OrderTypes(account_id) ==
    {o.subscription_type : o \in {r \in replica : /\ r.account_id = account_id
                                                   /\ r.type = ORDER}}

\* what the order o gives its account, and what it leaves alone
C20_Propagated(o) ==
    \A r \in replica :
        /\ (r.account_id = o.account_id /\ r.happened_on <= o.happened_on)
              => After(r).subscription_type = o.subscription_type
        /\ (r.account_id = o.account_id /\ r.happened_on > o.happened_on)
              => After(r).subscription_type = r.subscription_type
        /\ r.account_id # o.account_id
              => After(r).subscription_type
                    \in {r.subscription_type, TRIAL} \cup OrderTypes(r.account_id)

\* C20 as stated: for every account with an order, not individual, on the
\* day D of a trial_end, after mark_trials every activity of the account up
\* to D has the subscription_type of that order, every later one has kept
\* its own, and no other account got anything from it.
C20_Original ==
    Reconciled => \A o \in PaidTrialEnds : C20_Propagated(o)

\* C20 amended: the same for every account that has such an order on one day
\* only and no trial_end after that day whose subscription_type is
\* individual.
C20_Amended ==
    Reconciled =>
        \A o \in PaidTrialEnds :
            (/\ PairDays(o.account_id) = {o.happened_on}
             /\ \A e \in replica :
                   (/\ e.account_id = o.account_id
                    /\ e.type = TRIAL_END
                    /\ e.happened_on > o.happened_on)
                   => e.subscription_type # INDIVIDUAL)
            => C20_Propagated(o)

\* an account with a student order on the day 5 of its trial_end, an earlier
\* activity that was individual and a later one, next to another account
\* that mark_trials changes
C20_Witness ==
    /\ Reconciled
    /\ PairDays("1") = {5}
    /\ \E o \in PaidTrialEnds : o.account_id = "1" /\ o.subscription_type = STUDENT
    /\ \E r \in replica : /\ r.account_id = "1"
                          /\ r.happened_on = 1
                          /\ r.subscription_type = INDIVIDUAL
                          /\ After(r).subscription_type = STUDENT
    /\ \E r \in replica : /\ r.account_id = "1"
                          /\ r.happened_on = 12
                          /\ r.subscription_type = INDIVIDUAL
    /\ \E r \in replica : r.account_id = "2" /\ After(r) # r

(***************************************************************************)
(* Properties of the second update of mark_trials (SpecTrials).            *)
(***************************************************************************)
\* the rows the step gives the subscription_type trial
Relabelled ==
    {r \in ledger : /\ r.subscription_type # TRIAL
                    /\ \E n \in ledger' : n.id = r.id /\ n.subscription_type = TRIAL}

\* the trial_ends of the account whose subscription_type is individual
IndividualTrialEnds(account_id) ==
    {e \in ledger : /\ e.account_id = account_id
                    /\ e.type = TRIAL_END
                    /\ e.subscription_type = INDIVIDUAL}

TrialStarts(account_id) ==
    {s \in ledger : s.account_id = account_id /\ s.type = TRIAL_START}

\* the rows of the account from a trial_start to an individual trial_end
TrialWindow(account_id) ==
    {r \in ledger :
        /\ r.account_id = account_id
        /\ \E s \in TrialStarts(account_id), e \in IndividualTrialEnds(account_id) :
              s.happened_on <= r.happened_on /\ r.happened_on <= e.happened_on}

\* the trial_starts and orders before an individual trial_end of the
\* account, and the trial_end itself
TrialRows(account_id) ==
    {r \in ledger :
        /\ r.account_id = account_id
        /\ \E e \in IndividualTrialEnds(account_id) :
              \/ r.type \in {TRIAL_START, ORDER} /\ r.happened_on < e.happened_on
              \/ r = e}

SecondUpdate == mt = "pass1" /\ mt' = "done"

Last == stat[1]

\* the accounts that have an activity up to the date
AccountsUpTo(date) == {r.account_id : r \in {x \in ledger : x.happened_on <= date}}

\* the activities of the account up to the date that none of them is later
\* than
Newest(account_id, date) ==
    {r \in ledger :
        /\ r.account_id = account_id
        /\ r.happened_on <= date
        /\ \A x \in ledger : (x.account_id = account_id /\ x.happened_on <= date)
                                => x.happened_at <= r.happened_at}

\* the accounts whose latest activity up to the date is no deactivation
ActiveAccounts(date) ==
    {a \in AccountsUpTo(date) : \E r \in Newest(a, date) : r.type # DEACTIVATION}

\* C22 as stated: listing(date) gives exactly one row for every account
\* that has an activity up to the date, a row of the greatest happened_at
\* among them, and no other row; active_count(date) is the number of
\* accounts whose latest row is no deactivation.
C22_Original ==
    /\ (stat # <<>> /\ Last.method = "listing") =>
          /\ \A r \in Last.rows : r \in Newest(r.account_id, Last.date)
          /\ \A a \in AccountsUpTo(Last.date) :
                Cardinality({r \in Last.rows : r.account_id = a}) = 1
    /\ (stat # <<>> /\ Last.method = "active_count") =>
          Last.value = <<Cardinality(ActiveAccounts(Last.date))>>

\* the dates of a month after the month of the cutoff
AfterCutoffMonth(date) == date \div 100 > LEGACY_PLANS_DELETED_ON \div 100

\* some account's latest activity up to the date is no deactivation and has
\* no subscription_type
Untyped(date) ==
    \E a \in AccountsUpTo(date) :
        \E r \in Newest(a, date) : r.type # DEACTIVATION /\ r.subscription_type = None

RECURSIVE SumOfCounts(_)
SumOfCounts(pairs) ==
    IF pairs = <<>> THEN 0 ELSE Head(pairs)[2] + SumOfCounts(Tail(pairs))

\* C23: for a date after the month of the cutoff,
\* active_subscription_type_breakdown raises its error whenever some
\* account's latest activity up to the date is no deactivation and has no
\* subscription_type; when it returns, it returns one count for every
\* subscription type and the counts sum to active_count(date).
C23_NullTypeRaises ==
    (/\ stat # <<>>
     /\ Last.method = "active_subscription_type_breakdown"
     /\ AfterCutoffMonth(Last.date))
    => /\ Last.returned \in {"ValueError", "dict"}
       /\ Untyped(Last.date) => Last.returned = "ValueError"
       /\ Last.returned = "dict" =>
             /\ [i \in 1..Len(Last.value) |-> Last.value[i][1]] = SubscriptionTypes
             /\ SumOfCounts(Last.value) = active_count(ledger, Last.date)

\* the breakdown raised for an account without subscription_type while
\* another account is active with one
C23_Witness ==
    /\ stat # <<>>
    /\ Last.method = "active_subscription_type_breakdown"
    /\ Last.date = 20230320
    /\ Last.returned = "ValueError"
    /\ \E r \in active_listing(ledger, Last.date) : r.subscription_type = PARTNER
    /\ \E r \in active_listing(ledger, Last.date) : r.subscription_type = None

\* the methods under uses_data_from_subscriptions
Wrapped ==
    {"active_individuals_count", "active_individuals_yearly_count",
     "active_subscription_type_breakdown", "individuals_signups_count"}

\* what the method under the wrapper gives
Underlying(method, date) ==
    CASE method = "active_individuals_count" -> active_individuals_count(ledger, date)
      [] method = "active_individuals_yearly_count" ->
            active_individuals_yearly_count(ledger, date)
      [] method = "active_subscription_type_breakdown" ->
            active_subscription_type_breakdown(ledger, date)
      [] OTHER -> individuals_signups_count(ledger, date)

\* the dates before 24 February 2023 and those of February 2023
UpToCutoffMonth(date) ==
    \/ date < 20230224
    \/ date \div 100 = 202302

\* C24: for a date before the cutoff or in the month of the cutoff, each of
\* the four wrapped statistics returns None, the breakdown an empty dict,
\* without calling the method that reads the ledger and without raising,
\* whatever the ledger holds; for a date of a later month it gives what the
\* method gives.
C24_ShortCircuit ==
    (stat # <<>> /\ Last.method \in Wrapped) =>
        IF UpToCutoffMonth(Last.date)
        THEN /\ ~Last.called
             /\ Last.value = <<>>
             /\ Last.returned = (IF Last.method = "active_subscription_type_breakdown"
                                 THEN "dict" ELSE None)
        ELSE /\ Last.called
             /\ Returned(Last.returned, Last.value) = Underlying(Last.method, Last.date)

\* the breakdown asked for 25 February 2023 gave an empty dict on a ledger
\* whose latest activity up to that day has no subscription_type
C24_Witness ==
    /\ stat # <<>>
    /\ Last.method = "active_subscription_type_breakdown"
    /\ Last.date = 20230225
    /\ Last.returned = "dict" /\ Last.value = <<>>
    /\ Untyped(Last.date)

(***************************************************************************)
(* Properties of the shared cache and of the export call (SpecCache).      *)
(***************************************************************************)
\* a step that starts a fetch call, and the call it starts
Starts == Len(calls') > Len(calls)
Started == calls'[Len(calls')]

\* the client a step acts for: the one whose call it starts, or the CSV
\* client, whose call is the only one that takes several steps
Acting == IF Starts THEN Started.client ELSE "csv"

\* the key a call looks up
KeyOf(call) ==
    IF call.client = "api" THEN QueryCacheKey(call.query, call.variable_values)
    ELSE UrlCacheKey(ExportUrl(call.variable_values))

\* C25: a step of a client leaves every entry of another tag than its own
\* in the cache, with its value, and removes entries of its own tag only
\* while its clear flag is set; a call whose key is held under the client's
\* tag, on a client whose flag is not set, is answered from the cache
\* without a request, whatever the other client evicted before.
C25_EvictsOwnTagOnly ==
    [][LET own == ClientTag(Acting)
       IN /\ \A t \in Tags \ {own} : cache'.entries[t] = cache.entries[t]
          /\ (\E k \in DOMAIN cache.entries[own] : k \notin DOMAIN cache'.entries[own])
                => (Starts /\ ClientFlag(Acting))
          /\ (/\ Starts
              /\ ~ClientFlag(Acting)
              /\ KeyOf(Started) \in DOMAIN cache.entries[own])
             => /\ Started.outcome = "returned"
                /\ Started.sent = 0
                /\ net' = net /\ http' = <<>>]_vars

\* on the cache shared by both clients and other code, the CSV client
\* evicted its export and the API client was then answered from the cache
C25_Witness ==
    /\ Len(calls) = 2
    /\ calls[1].client = "csv" /\ csv.given
    /\ ops # <<>> /\ ops[1].op = "evict" /\ ops[1].tag = CsvTag
    /\ UrlCacheKey(ExportUrl(MembersExport)) \notin DOMAIN cache.entries[CsvTag]
    /\ DOMAIN cache.entries[OtherTag] # {}
    /\ calls[2].client = "api" /\ calls[2].outcome = "returned" /\ calls[2].sent = 0

\* the tags under which a cache holds the key
HeldUnder(c, key) == {t \in Tags : key \in DOMAIN c.entries[t]}

\* C26: a download_csv call whose export URL is in the cache when it looks
\* it up (after the eviction of a set clear flag) ends in its first step:
\* no login, no export request, no poll, no wait, the session and the token
\* as they were (held or not), the cache as it was, and its rows are those
\* parsed from the entry; they are the rows of the call before when that
\* call downloaded the same export.
C26_HitWithoutNetwork ==
    [][(Starts /\ Started.client = "csv") =>
          LET key == KeyOf(Started)
              looked == AfterPendingEviction(cache, "csv")
          IN HeldUnder(looked, key) # {} =>
                /\ Started.outcome = "returned" /\ Started.sent = 0
                /\ csv'.pc = "idle" /\ csv'.err = ""
                /\ http' = <<>> /\ net' = net /\ polled' = <<>>
                /\ csv'._session = csv._session
                /\ csv'._csrf_token = csv._csrf_token
                /\ cache' = looked
                /\ \A t \in HeldUnder(looked, key) :
                      csv'.rows = _parse_csv(looked.entries[t][key])
                /\ (/\ calls # <<>>
                    /\ LastCall.client = "csv"
                    /\ LastCall.variable_values = Started.variable_values
                    /\ LastCall.outcome = "returned" /\ LastCall.sent = 1)
                   => csv'.rows = csv.rows]_vars

\* an export that was downloaded and stored, asked again and answered with
\* the stored rows
C26_Witness ==
    /\ Len(calls) = 2
    /\ calls[1].client = "csv" /\ calls[1].outcome = "returned" /\ calls[1].sent = 1
    /\ calls[2].client = "csv" /\ calls[2].outcome = "returned" /\ calls[2].sent = 0
    /\ calls[2].variable_values = calls[1].variable_values
    /\ csv.rows # <<>>
    /\ http = <<>>

\* the positions of the requests of one kind in what the call did
Sent(what) == {i \in 1..Len(http) : http[i].what = what}

\* the steps a download_csv call takes, in the order of its states
CallOrder ==
    {<<"idle", "idle">>, <<"idle", "session">>,
     <<"session", "csrf_token">>, <<"session", "idle">>,
     <<"csrf_token", "post">>, <<"csrf_token", "idle">>,
     <<"post", "poll">>, <<"post", "idle">>,
     <<"poll", "poll">>, <<"poll", "idle">>}

C28_OneLogin ==
    [][(Truthy(csv._session) /\ Truthy(csv._csrf_token)) =>
          /\ csv'._session = csv._session
          /\ csv'._csrf_token = csv._csrf_token
          /\ \A i \in 1..Len(http') :
                http'[i].what = "sign_in" => (i <= Len(http) /\ http[i] = http'[i])]_vars

\* a second call that requested its export and polls without a login, with
\* the session of the first call, which ended in an error
C28_Witness ==
    /\ Len(calls) = 2
    /\ calls[1].client = "csv" /\ calls[1].outcome = "raised"
    /\ calls[2].client = "csv"
    /\ csv.pc = "poll"
    /\ Truthy(csv._session) /\ Truthy(csv._csrf_token)
    /\ Sent("sign_in") = {}
    /\ Sent("csv_exports") # {}
    /\ Sent("download") # {}

(***************************************************************************)
(* Properties of repeated reconciliation (SpecAgain).  replica holds the   *)
(* rows as they were before the call of mark_trials that ran last.         *)
(***************************************************************************)
\* the rows of before are all there, no other row is, and every row is as
\* it was but for its subscription_type
RowsKept ==
    /\ {r.id : r \in ledger} = {r.id : r \in replica}
    /\ Cardinality(ledger) = Cardinality(replica)
    /\ \A r \in replica : [After(r) EXCEPT !.subscription_type = r.subscription_type] = r

OneTrialEnd ==
    \A a \in Accounts :
        Cardinality({r \in replica : r.account_id = a /\ r.type = TRIAL_END}) <= 1

\* C29: neither update of mark_trials inserts or deletes a row or changes a
\* field other than subscription_type, and on a ledger in which every
\* account has at most one trial_end a second call of mark_trials leaves
\* the rows as the first call left them.
C29_Idempotent ==
    /\ RowsKept
    /\ (mt = "done again" /\ OneTrialEnd) => ledger = replica

\* after the second call: an account with an individual order on the day of
\* its only trial_end, whose trial_start is trial, next to an account whose
\* trial ended as individual without an order, unchanged by the second call
C29_Witness ==
    /\ mt = "done again"
    /\ OneTrialEnd
    /\ PairDays("1") = {10}
    /\ \E r \in ledger : /\ r.account_id = "1" /\ r.type = TRIAL_START
                         /\ r.subscription_type = TRIAL
    /\ \E r \in ledger : /\ r.account_id = "1" /\ r.type = ORDER
                         /\ r.happened_on = 10
                         /\ r.subscription_type = INDIVIDUAL
    /\ \E r \in ledger : /\ r.account_id = "2" /\ r.type = TRIAL_END
                         /\ r.subscription_type = TRIAL
    /\ ledger = replica

=============================================================================
